---- MODULE Spec2Model ----
(***************************************************************************)
(* Market-King dashboard: the calculation engine (src/lib/utils.ts) and    *)
(* the dashboard state controller (src/hooks/use-dashboard-state.ts).      *)
(*                                                                         *)
(* Number representation.  JavaScript numbers are modelled in fixed point: *)
(*   - balances and money amounts are whole dollars;                       *)
(*   - lot sizes are thousandths of a lot ("milli-lots"), so 0.01 lot is   *)
(*     10 and 5.00 lots is 5000;                                           *)
(*   - prices are ten-thousandths of a price unit (PRICE_SCALE);           *)
(*   - Number.prototype.toFixed is rounding half up of the exact value.    *)
(* utils.ts holds two revisions of the engine one after the other; the     *)
(* model follows the last one (lines 327-614), the one whose constants the *)
(* controller of use-dashboard-state.ts repeats.                           *)
(***************************************************************************)
EXTENDS Integers, Sequences, FiniteSets, TLC

VARIABLES
    today,            \* the browser's local date <<year, month (0-based), day>>
    ls,               \* window.localStorage: key text -> stored JSON text
    storageWritable,  \* FALSE while localStorage.setItem throws (quota)
    instrumentType,   \* the mounted dashboard's instrument, or "none"
    currentBalance,   \* useState: currentBalance
    tradesToday,      \* useState: tradesToday
    lastTradeDate,    \* useState: lastTradeDate (a date string, '' at first)
    tradePlan,        \* useState: tradePlan, <<>> for null, <<plan>> otherwise
    queued,           \* state updates queued by setters, applied by the next render
    effects,          \* the effects of the current commit still to run, in order
    toasts,           \* the end-of-month notifications emitted, per reminder key
    lastOp,           \* the last controller event and what it saw (observer)
    call              \* the last call of a calculation-engine function

vars == << today, ls, storageWritable, instrumentType, currentBalance,
           tradesToday, lastTradeDate, tradePlan, queued, effects, toasts,
           lastOp, call >>

ctrlVars == << today, ls, storageWritable, instrumentType, currentBalance,
               tradesToday, lastTradeDate, tradePlan, queued, effects, toasts,
               lastOp >>

----------------------------------------------------------------------------
(* Bounds of the model *)

MaxMantissa == 9      \* engine balances are m * 10^e, m in 1..MaxMantissa
MaxExp == 6           \*   and e in 0..MaxExp
MaxUpdateExp == 1     \* balances typed into the update form: 0, 50 * 10^k
MaxTrades == 2        \* balance updates recorded per day
MaxDays == 3          \* days the clock advances over
MaxPipExp == 3        \* pip distances are p * 10^e, e in 0..MaxPipExp

RECURSIVE Pow10(_)
Pow10(n) == IF n = 0 THEN 1 ELSE 10 * Pow10(n - 1)

Instruments == {"gold", "volatility75"}

----------------------------------------------------------------------------
(* Instrument constants (utils.ts, last revision) *)

MIN_LOT_SIZE_GOLD == 10                   \* 0.01 lot, in milli-lots
MAX_LOT_SIZE_GOLD == 5000                 \* 5.00 lots
GOLD_LOT_PRECISION == 2
GOLD_PIP_TO_PRICE_FACTOR == 1000          \* 0.10, in 1/PRICE_SCALE
GOLD_VALUE_PER_PIP_PER_STANDARD_LOT == 10
GOLD_STRATEGY_SL_PIPS_FOR_PLAN == 100
GOLD_STRATEGY_TP_PIPS_FOR_PLAN == 200

MIN_LOT_SIZE_V75 == 1                     \* 0.001 lot
MAX_LOT_SIZE_V75 == 5000                  \* 5.00 lots
V75_LOT_PRECISION == 3
V75_PIP_TO_PRICE_FACTOR == 10000          \* 1, in 1/PRICE_SCALE
V75_STRATEGY_SL_PIPS_FOR_PLAN == 1000
V75_STRATEGY_TP_PIPS_FOR_PLAN == 2000
V75_LOT_CALC_BASE_PIPS_FOR_1_PERCENT_RISK == 500
V75_VALUE_PER_PIP_PER_FULL_LOT == 1

PRICE_SCALE == 10000                      \* price units per 1.0
MAX_PRICE_DECIMALS == 4                   \* PRICE_SCALE = 10^MAX_PRICE_DECIMALS
LOT_SCALE == 1000                         \* milli-lots per lot
LOT_DECIMALS == 3                         \* LOT_SCALE = 10^LOT_DECIMALS
RISK_PERCENT == 1                         \* the literal 0.01: 1% of the balance

----------------------------------------------------------------------------
(* Arithmetic helpers *)

\* The quotient num/den (den > 0, num >= 0) rounded half up to a multiple of
\* step: (x).toFixed(p) with step = 10^(scale decimals - p).
ToFixedRatio(num, den, step) ==
    LET q   == num \div den
        rem == (q % step) * den + (num % den)
    IN  (q \div step) * step + (IF 2 * rem >= step * den THEN step ELSE 0)

\* Mutant of ClampToFixed: Math.min(..., maxLot) is missing.
ClampToFixedNoMax(num, den, minLot, maxLot, precision) ==
    IF num <= minLot * den THEN minLot
    ELSE ToFixedRatio(num, den, Pow10(LOT_DECIMALS - precision))

\* Math.max(minLot, Math.min(num/den, maxLot)).toFixed(precision), then
\* parseFloat: the clamp is applied to the raw quotient, the rounding after it.
ClampToFixed(num, den, minLot, maxLot, precision) ==
    IF num \div den >= maxLot THEN maxLot
    ELSE IF num <= minLot * den THEN minLot
    ELSE ToFixedRatio(num, den, Pow10(LOT_DECIMALS - precision))

----------------------------------------------------------------------------
(* Calculation engine: utils.ts *)

\* 1% of the balance, as the numerator of a lot quotient in milli-lots:
\* (currentBalance * 0.01) lots-dollars = currentBalance * 10 milli-lot-dollars.
AmountToRisk(balance) == balance * ((RISK_PERCENT * LOT_SCALE) \div 100)

\* lots * pips * valuePerPip in dollars, lots given in milli-lots.
ProfitOf(lots, pips, valuePerPip) == (lots * pips * valuePerPip) \div LOT_SCALE

\* (profit / balance) * 100 with toFixed(2), in hundredths of a percent.
PercentOf(profit, balance) == ToFixedRatio(profit * 10000, balance, 1)

EmptyPlan == [dailyTarget |-> 0, totalTradesRequired |-> 0, groups |-> << >>]

\* Mutant of SingleTradePlan: the trade is put into the group twice.
SingleTradePlanTwice(balance, lotsForTrade, tpPips, valuePerPip) ==
    LET profitForTrade  == ProfitOf(lotsForTrade, tpPips, valuePerPip)
        percentForTrade == IF balance > 0 THEN PercentOf(profitForTrade, balance) ELSE 0
        tradeDetail == [lots |-> lotsForTrade, profit |-> profitForTrade,
                        percent |-> percentForTrade, status |-> "Pending",
                        tradeNumber |-> 0]
        group == [groupNumber |-> 1, trades |-> << tradeDetail, tradeDetail >>,
                  totalLots |-> lotsForTrade]
    IN  [dailyTarget |-> profitForTrade, totalTradesRequired |-> 2,
         groups |-> << group >>]

\* The one-group, one-trade plan both branches of the last revision build.
SingleTradePlan(balance, lotsForTrade, tpPips, valuePerPip) ==
    LET profitForTrade  == ProfitOf(lotsForTrade, tpPips, valuePerPip)
        percentForTrade == IF balance > 0 THEN PercentOf(profitForTrade, balance) ELSE 0
        tradeDetail == [lots |-> lotsForTrade, profit |-> profitForTrade,
                        percent |-> percentForTrade, status |-> "Pending",
                        tradeNumber |-> 0]
        group == [groupNumber |-> 1, trades |-> << tradeDetail >>,
                  totalLots |-> lotsForTrade]
    IN  [dailyTarget |-> profitForTrade, totalTradesRequired |-> 1,
         groups |-> << group >>]

PlanLotsV75(balance) ==
    ClampToFixed(AmountToRisk(balance), V75_LOT_CALC_BASE_PIPS_FOR_1_PERCENT_RISK,
                 MIN_LOT_SIZE_V75, MAX_LOT_SIZE_V75, V75_LOT_PRECISION)

PlanLotsGold(balance) ==
    ClampToFixed(AmountToRisk(balance),
                 GOLD_STRATEGY_SL_PIPS_FOR_PLAN * GOLD_VALUE_PER_PIP_PER_STANDARD_LOT,
                 MIN_LOT_SIZE_GOLD, MAX_LOT_SIZE_GOLD, GOLD_LOT_PRECISION)

\* Mutant of calculateTradeGroupsLogic: the guard is balance < 0.
calculateTradeGroupsLogicStrict(balance, instrument) ==
    IF balance < 0 THEN EmptyPlan
    ELSE IF instrument = "volatility75"
    THEN SingleTradePlan(balance, PlanLotsV75(balance),
                         V75_STRATEGY_TP_PIPS_FOR_PLAN, V75_VALUE_PER_PIP_PER_FULL_LOT)
    ELSE SingleTradePlan(balance, PlanLotsGold(balance),
                         GOLD_STRATEGY_TP_PIPS_FOR_PLAN,
                         GOLD_VALUE_PER_PIP_PER_STANDARD_LOT)

calculateTradeGroupsLogic(balance, instrument) ==
    IF balance <= 0 THEN EmptyPlan
    ELSE IF instrument = "volatility75"
    THEN SingleTradePlan(balance, PlanLotsV75(balance),
                         V75_STRATEGY_TP_PIPS_FOR_PLAN, V75_VALUE_PER_PIP_PER_FULL_LOT)
    ELSE SingleTradePlan(balance, PlanLotsGold(balance),
                         GOLD_STRATEGY_TP_PIPS_FOR_PLAN,
                         GOLD_VALUE_PER_PIP_PER_STANDARD_LOT)

\* The first revision of the engine (utils.ts lines 37-162).  Its volatility 75
\* plan is the single trade of the last revision with the same constants; its
\* gold plan has two groups, each splitting 1% of the balance at 500 pips into
\* trades of at most MAX_LOT_SIZE_GOLD.  The loop works on lots that are not yet
\* rounded to GOLD_LOT_PRECISION, so it counts in 1/FineLotScale lots.
GOLD_PIPS_FOR_TRADE_PLAN_PROFIT_CALC == 500
GOLD_VALUE_PER_PIP_PER_FULL_LOT == 1
TRADE_COUNTER_LIMIT == 100                \* tradeCounterInGroup < 100

FineLotScale == 100 * LOT_SCALE

\* (x).toFixed(p) of a number that may be negative, step = 10^(decimals - p).
RoundTo(x, step) ==
    IF x >= 0 THEN ToFixedRatio(x, 1, step) ELSE 0 - ToFixedRatio(0 - x, 1, step)

GoldTradeDetail(balance, lots) ==
    LET profit == ProfitOf(lots, GOLD_PIPS_FOR_TRADE_PLAN_PROFIT_CALC,
                           GOLD_VALUE_PER_PIP_PER_FULL_LOT)
    IN  [lots |-> lots, profit |-> profit, percent |-> PercentOf(profit, balance),
         status |-> "Pending", tradeNumber |-> 0]

\* Mutant of GoldLoopStep: Math.min(MAX_LOT_SIZE_GOLD, ...) is missing, so one
\* trade takes all the remaining lots.
GoldLoopStepNoMax(balance, loop) ==
    IF ~ (loop.remainingLotsForGroup > 0 /\ loop.tradeCounterInGroup < TRADE_COUNTER_LIMIT)
    THEN [loop EXCEPT !.exited = TRUE]
    ELSE
      LET fine == FineLotScale \div LOT_SCALE
          minLot == MIN_LOT_SIZE_GOLD * fine
          atLeast == IF loop.remainingLotsForGroup > minLot
                     THEN loop.remainingLotsForGroup ELSE minLot
          lotsForThisTrade ==
              RoundTo(atLeast, fine * Pow10(LOT_DECIMALS - GOLD_LOT_PRECISION))
      IN  [loop EXCEPT
             !.trades = Append(@, GoldTradeDetail(balance, lotsForThisTrade \div fine)),
             !.remainingLotsForGroup =
                 RoundTo(@ - lotsForThisTrade,
                         fine \div Pow10(GOLD_LOT_PRECISION + 1 - LOT_DECIMALS)),
             !.tradeCounterInGroup = @ + 1]

\* createTradeGroupForGold, one pass of the while loop over the loop's
\* variables: remainingLotsForGroup in 1/FineLotScale lots, the trades pushed
\* so far and tradeCounterInGroup; exited is set when the loop's condition
\* fails or its break is taken.
GoldLoopStep(balance, loop) ==
    IF ~ (loop.remainingLotsForGroup > 0 /\ loop.tradeCounterInGroup < TRADE_COUNTER_LIMIT)
    THEN [loop EXCEPT !.exited = TRUE]
    ELSE
      LET fine == FineLotScale \div LOT_SCALE
          minLot == MIN_LOT_SIZE_GOLD * fine
          maxLot == MAX_LOT_SIZE_GOLD * fine
          atLeast == IF loop.remainingLotsForGroup > minLot
                     THEN loop.remainingLotsForGroup ELSE minLot
          lotsForThisTrade ==
              RoundTo(IF atLeast < maxLot THEN atLeast ELSE maxLot,
                      fine * Pow10(LOT_DECIMALS - GOLD_LOT_PRECISION))
      IN  IF lotsForThisTrade < minLot /\ loop.trades = << >>
          THEN [loop EXCEPT !.trades = << GoldTradeDetail(balance, MIN_LOT_SIZE_GOLD) >>,
                            !.remainingLotsForGroup = 0,
                            !.tradeCounterInGroup = @ + 1]
          ELSE IF lotsForThisTrade >= minLot
          THEN [loop EXCEPT
                  !.trades = Append(@, GoldTradeDetail(balance, lotsForThisTrade \div fine)),
                  !.remainingLotsForGroup =
                      RoundTo(@ - lotsForThisTrade,
                              fine \div Pow10(GOLD_LOT_PRECISION + 1 - LOT_DECIMALS)),
                  !.tradeCounterInGroup = @ + 1]
          ELSE [loop EXCEPT !.exited = TRUE]

\* The loop for at most n passes: the first half of them, then the rest.
RECURSIVE GoldGroupTrades(_, _, _)
GoldGroupTrades(balance, loop, n) ==
    IF n = 0 \/ loop.exited THEN loop
    ELSE IF n = 1 THEN GoldLoopStep(balance, loop)
    ELSE LET half == GoldGroupTrades(balance, loop, n \div 2)
         IN  IF half.exited THEN half
             ELSE GoldGroupTrades(balance, half, n - (n \div 2))

\* trades.reduce((sum, trade) => sum + parseFloat(trade.lots), 0) over
\* trades[from .. to].
RECURSIVE SumLots(_, _, _)
SumLots(trades, from, to) ==
    IF from > to THEN 0
    ELSE IF from = to THEN trades[from].lots
    ELSE LET mid == (from + to) \div 2
         IN  SumLots(trades, from, mid) + SumLots(trades, mid + 1, to)

createTradeGroupForGold(balance, groupNumber) ==
    LET den == GOLD_PIPS_FOR_TRADE_PLAN_PROFIT_CALC * GOLD_VALUE_PER_PIP_PER_FULL_LOT
        fine == FineLotScale \div LOT_SCALE
        raw == (AmountToRisk(balance) \div den) * fine
                  + ((AmountToRisk(balance) % den) * fine) \div den
        minLot == MIN_LOT_SIZE_GOLD * fine
        groupBaseLots == IF raw > minLot THEN raw ELSE minLot
        looped == GoldGroupTrades(balance,
                                  [remainingLotsForGroup |-> groupBaseLots,
                                   trades |-> << >>, tradeCounterInGroup |-> 0,
                                   exited |-> FALSE],
                                  TRADE_COUNTER_LIMIT + 1).trades
        trades == IF looped = << >>
                  THEN << GoldTradeDetail(balance, MIN_LOT_SIZE_GOLD) >>
                  ELSE looped
    IN  [groupNumber |-> groupNumber, trades |-> trades,
         totalLots |-> SumLots(trades, 1, Len(trades))]

\* Mutant of calculateTradeGroupsLogicEarlier: totalTradesRequired counts the
\* trades of the first group only.
calculateTradeGroupsLogicEarlierFirstGroup(balance, instrument) ==
    IF balance <= 0 THEN EmptyPlan
    ELSE IF instrument = "volatility75"
    THEN SingleTradePlan(balance, PlanLotsV75(balance),
                         V75_STRATEGY_TP_PIPS_FOR_PLAN, V75_VALUE_PER_PIP_PER_FULL_LOT)
    ELSE LET groups == << createTradeGroupForGold(balance, 1),
                          createTradeGroupForGold(balance, 2) >>
         IN  [dailyTarget |-> balance * 2,
              totalTradesRequired |-> Len(groups[1].trades),
              groups |-> groups]

\* The gold plan's dailyTarget, currentBalance * 0.02, is in cents: it is not a
\* whole number of dollars for every balance.
calculateTradeGroupsLogicEarlier(balance, instrument) ==
    IF balance <= 0 THEN EmptyPlan
    ELSE IF instrument = "volatility75"
    THEN SingleTradePlan(balance, PlanLotsV75(balance),
                         V75_STRATEGY_TP_PIPS_FOR_PLAN, V75_VALUE_PER_PIP_PER_FULL_LOT)
    ELSE LET groups == << createTradeGroupForGold(balance, 1),
                          createTradeGroupForGold(balance, 2) >>
         IN  [dailyTarget |-> balance * 2,
              totalTradesRequired |-> Len(groups[1].trades) + Len(groups[2].trades),
              groups |-> groups]

\* entryPrice.toString().split('.')[1].length: the number of decimals of a
\* price given in 1/PRICE_SCALE units (0 for a whole number).
RECURSIVE DecimalsOf(_, _)
DecimalsOf(price, d) ==
    IF d = 0 \/ price % Pow10(MAX_PRICE_DECIMALS - d + 1) # 0 THEN d
    ELSE DecimalsOf(price, d - 1)

Abs(x) == IF x < 0 THEN 0 - x ELSE x

PricePrecision(entryPrice, instrument) ==
    IF entryPrice = 0 THEN (IF instrument = "gold" THEN 2 ELSE 3)
    ELSE IF DecimalsOf(Abs(entryPrice), MAX_PRICE_DECIMALS) > 0
         THEN DecimalsOf(Abs(entryPrice), MAX_PRICE_DECIMALS)
    ELSE IF instrument = "gold" THEN 2 ELSE 1

\* value.toFixed(precision) of a price: half away from zero.
PriceToFixed(value, precision) ==
    LET step == Pow10(MAX_PRICE_DECIMALS - precision)
        r    == ToFixedRatio(Abs(value), 1, step)
    IN  IF value < 0 THEN 0 - r ELSE r

Unset == [unset |-> TRUE, value |-> 0]       \* the sentinel "-"
PriceText(v) == [unset |-> FALSE, value |-> v]

PipToPriceFactor(instrument) ==
    IF instrument = "gold" THEN GOLD_PIP_TO_PRICE_FACTOR ELSE V75_PIP_TO_PRICE_FACTOR

DefaultSLPips(instrument) ==
    IF instrument = "gold" THEN GOLD_STRATEGY_SL_PIPS_FOR_PLAN
    ELSE V75_STRATEGY_SL_PIPS_FOR_PLAN

DefaultTPPips(instrument) ==
    IF instrument = "gold" THEN GOLD_STRATEGY_TP_PIPS_FOR_PLAN
    ELSE V75_STRATEGY_TP_PIPS_FOR_PLAN

\* customX !== undefined && customX > 0 ? customX : default.  A pip count
\* that is missing is given as 0.
ActualPips(custom, default) == IF custom > 0 THEN custom ELSE default

CalculatedLots(p) ==
    IF p.instrumentType = "gold"
    THEN ClampToFixed(AmountToRisk(p.currentBalance),
                      ActualPips(p.customSL, GOLD_STRATEGY_SL_PIPS_FOR_PLAN)
                          * GOLD_VALUE_PER_PIP_PER_STANDARD_LOT,
                      MIN_LOT_SIZE_GOLD, MAX_LOT_SIZE_GOLD, GOLD_LOT_PRECISION)
    ELSE ClampToFixed(AmountToRisk(p.currentBalance),
                      V75_LOT_CALC_BASE_PIPS_FOR_1_PERCENT_RISK,
                      MIN_LOT_SIZE_V75, MAX_LOT_SIZE_V75, V75_LOT_PRECISION)

\* Mutant of TpCustomVal: the direction is not consulted.
TpCustomValAlwaysUp(p) ==
    p.entryPrice + ActualPips(p.customTP, DefaultTPPips(p.instrumentType))
                       * PipToPriceFactor(p.instrumentType)

TpCustomVal(p) ==
    LET tpCustomPriceMove == ActualPips(p.customTP, DefaultTPPips(p.instrumentType))
                                 * PipToPriceFactor(p.instrumentType)
    IN  IF p.direction = "rise" THEN p.entryPrice + tpCustomPriceMove
        ELSE p.entryPrice - tpCustomPriceMove

SlVal(p) ==
    LET slPriceMove == ActualPips(p.customSL, DefaultSLPips(p.instrumentType))
                           * PipToPriceFactor(p.instrumentType)
    IN  IF p.direction = "rise" THEN p.entryPrice - slPriceMove
        ELSE p.entryPrice + slPriceMove

\* Mutant of PriceShown: an entry price of 0 counts as set.
PriceShownFromZero(p) == p.entryPrice >= 0

PriceShown(p) == p.entryPrice > 0

LotsShown(p) == p.currentBalance > 0 /\ p.entryPrice > 0

calculateTradePointsLogic(p) ==
    LET pricePrecision == PricePrecision(p.entryPrice, p.instrumentType)
    IN  [tpCustom |-> IF PriceShown(p)
                      THEN PriceText(PriceToFixed(TpCustomVal(p), pricePrecision))
                      ELSE Unset,
         slPrice  |-> IF PriceShown(p)
                      THEN PriceText(PriceToFixed(SlVal(p), pricePrecision))
                      ELSE Unset,
         calculatedLots |-> IF LotsShown(p) THEN CalculatedLots(p) ELSE 0]

\* Mutant of RecLots: the volatility 75 lot is sized on the stop-loss pips of
\* the strategy instead of the 500 base pips.
RecLotsBySlPips(balance, instrument) ==
    IF instrument = "volatility75"
    THEN ClampToFixed(AmountToRisk(balance), V75_STRATEGY_SL_PIPS_FOR_PLAN,
                      MIN_LOT_SIZE_V75, MAX_LOT_SIZE_V75, V75_LOT_PRECISION)
    ELSE ClampToFixed(AmountToRisk(balance),
                      GOLD_STRATEGY_SL_PIPS_FOR_PLAN * GOLD_VALUE_PER_PIP_PER_STANDARD_LOT,
                      MIN_LOT_SIZE_GOLD, MAX_LOT_SIZE_GOLD, GOLD_LOT_PRECISION)

\* The lot metric and the money metrics the hook derives on every render
\* (use-dashboard-state.ts 143-210); "Days to Target" is a logarithm and is
\* left out.
RecLots(balance, instrument) ==
    IF instrument = "volatility75"
    THEN ClampToFixed(AmountToRisk(balance), V75_LOT_CALC_BASE_PIPS_FOR_1_PERCENT_RISK,
                      MIN_LOT_SIZE_V75, MAX_LOT_SIZE_V75, V75_LOT_PRECISION)
    ELSE ClampToFixed(AmountToRisk(balance),
                      GOLD_STRATEGY_SL_PIPS_FOR_PLAN * GOLD_VALUE_PER_PIP_PER_STANDARD_LOT,
                      MIN_LOT_SIZE_GOLD, MAX_LOT_SIZE_GOLD, GOLD_LOT_PRECISION)

metrics(balance, instrument) ==
    LET actualRecLots == RecLots(balance, instrument)
        slPips == DefaultSLPips(instrument)
        tpPips == DefaultTPPips(instrument)
        value  == IF instrument = "gold" THEN GOLD_VALUE_PER_PIP_PER_STANDARD_LOT
                  ELSE V75_VALUE_PER_PIP_PER_FULL_LOT
    IN  [currentBalance   |-> balance,
         dailyTargetValue |-> ProfitOf(actualRecLots, tpPips, value),
         riskMetricValue  |-> ProfitOf(actualRecLots, slPips, value),
         lotSize          |-> IF balance > 0 THEN actualRecLots ELSE 0]

----------------------------------------------------------------------------
(* Projections: calculateCompoundingLogic and calculateWithdrawalLogic.
   The doubles of these two functions are decimal floating-point numbers
   m * 10^e with DEC_DIGITS significant digits, rounded half up. *)

DEC_DIGITS == 7
DAILY_GROWTH_PERCENT == 102          \* dailyGrowthRate = 1.02
DAYS_PER_MONTH == 20
DAYS_PER_YEAR == 250
WITHDRAWAL_DAYS == 30                \* daysInPeriod
WITHDRAWABLE_PERCENT == 5            \* totalGrowthThisPeriod * 0.05

Dec(m, e) == [m |-> m, e |-> e]

RECURSIVE Norm(_, _)
Norm(m, e) ==
    IF m >= Pow10(DEC_DIGITS) THEN Norm((m + 5) \div 10, e + 1) ELSE Dec(m, e)

\* The same value with the mantissa at full width.
RECURSIVE Widen(_, _)
Widen(m, e) ==
    IF m = 0 \/ m >= Pow10(DEC_DIGITS - 1) THEN Dec(m, e) ELSE Widen(m * 10, e - 1)

\* x * dailyGrowthRate
TimesRate(x) == Norm(x.m * DAILY_GROWTH_PERCENT, x.e - 2)

\* x / dailyGrowthRate
OverRate(x) ==
    LET w == Widen(x.m, x.e)
    IN  Dec((2 * 100 * w.m + DAILY_GROWTH_PERCENT) \div (2 * DAILY_GROWTH_PERCENT), w.e)

\* a * b: the mantissas are multiplied in two limbs of LIMB_DIGITS digits.
LIMB_DIGITS == 4
TimesDec(a, b) ==
    LET wa == Widen(a.m, a.e)
        wb == Widen(b.m, b.e)
        limb == Pow10(LIMB_DIGITS)
        ah == wa.m \div limb
        al == wa.m % limb
        bh == wb.m \div limb
        bl == wb.m % limb
        mid == ah * bl + al * bh
        low == al * bl
        v == mid * 100 + low \div 100
    IN  IF a.m = 0 \/ b.m = 0 THEN Dec(0, 0)
        ELSE Norm(ah * bh * 100 + (v + limb \div 2) \div limb, wa.e + wb.e + 6)

\* Math.pow(dailyGrowthRate, days), by repeated squaring
RECURSIVE PowRate(_)
PowRate(days) ==
    IF days = 0 THEN Dec(1, 0)
    ELSE IF days % 2 = 1 THEN TimesRate(PowRate(days - 1))
    ELSE LET half == PowRate(days \div 2) IN TimesDec(half, half)

\* a - b for a >= b >= 0
MinusDec(a, b) ==
    LET wa == Widen(a.m, a.e)
        wb == Widen(b.m, b.e)
        shift == wa.e - wb.e
        bm == IF b.m = 0 \/ shift >= DEC_DIGITS THEN 0
              ELSE IF shift <= 0 THEN wb.m * Pow10(0 - shift)
              ELSE (wb.m + Pow10(shift) \div 2) \div Pow10(shift)
    IN  IF a.m = 0 THEN Dec(0, 0) ELSE Dec(wa.m - bm, wa.e)

\* a < b for a, b >= 0
LessDec(a, b) ==
    LET wa == Widen(a.m, a.e)
        wb == Widen(b.m, b.e)
    IN  IF b.m = 0 THEN FALSE
        ELSE IF a.m = 0 THEN TRUE
        ELSE wa.e < wb.e \/ (wa.e = wb.e /\ wa.m < wb.m)

\* x.toFixed(2), as the number the text denotes
ToFixed2(x) ==
    IF x.e >= 0 - 2 THEN x
    ELSE LET k == 0 - 2 - x.e
         IN  IF k > DEC_DIGITS THEN Dec(0, 0 - 2)
             ELSE Dec((x.m + Pow10(k) \div 2) \div Pow10(k), 0 - 2)

\* A number argument: NaN, or sign * m * 10^e.
NaN == [nan |-> TRUE, sign |-> 0, m |-> 0, e |-> 0]
Number(sign, m, e) == [nan |-> FALSE, sign |-> IF m = 0 THEN 0 ELSE sign, m |-> m, e |-> e]
\* Mutant of IsPositive: zero passes.
IsNotNegative(x) == ~ x.nan /\ x.sign >= 0

IsPositive(x) == ~ x.nan /\ x.sign > 0

MoneyUnset == [unset |-> TRUE, value |-> Dec(0, 0)]        \* "-"
MoneyText(v) == [unset |-> FALSE, value |-> ToFixed2(v)]   \* `$${v.toFixed(2)}`

\* Mutant of DaysOf: a month or a year is counted once, whatever the periods.
DaysOfOnePeriod(frequency, periods) ==
    CASE frequency = "daily"   -> periods
      [] frequency = "monthly" -> DAYS_PER_MONTH
      [] frequency = "yearly"  -> DAYS_PER_YEAR
      [] OTHER                 -> 0

DaysOf(frequency, periods) ==
    CASE frequency = "daily"   -> periods
      [] frequency = "monthly" -> periods * DAYS_PER_MONTH
      [] frequency = "yearly"  -> periods * DAYS_PER_YEAR
      [] OTHER                 -> 0

\* periods is an integer count, or NaN.
calculateCompoundingLogic(initialBalance, frequency, periods) ==
    IF ~ IsPositive(initialBalance) \/ periods.nan \/ periods.value <= 0
    THEN [projectedBalance |-> MoneyUnset, totalGrowth |-> MoneyUnset]
    ELSE LET initial == Dec(initialBalance.m, initialBalance.e)
             projectedBalance ==
                 TimesDec(initial, PowRate(DaysOf(frequency, periods.value)))
             totalGrowth == MinusDec(projectedBalance, initial)
         IN  [projectedBalance |-> MoneyText(projectedBalance),
              totalGrowth |-> MoneyText(totalGrowth)]

\* for (let i = 0; i < daysInPeriod; i++) balance = balance / dailyGrowthRate
RECURSIVE ReverseGrowth(_, _)
ReverseGrowth(x, days) ==
    IF days = 0 THEN x
    ELSE LET y == OverRate(x)
         IN  IF y.m = 0 THEN y ELSE ReverseGrowth(y, days - 1)

calculateWithdrawalLogic(manualBalance) ==
    IF ~ IsPositive(manualBalance)
    THEN [totalGrowth |-> MoneyUnset, withdrawableAmount |-> MoneyUnset]
    ELSE LET balance == Dec(manualBalance.m, manualBalance.e)
             simulatedBalanceAtStartOfPeriod == ReverseGrowth(balance, WITHDRAWAL_DAYS)
             totalGrowthThisPeriod == MinusDec(balance, simulatedBalanceAtStartOfPeriod)
             withdrawableAmount ==
                 TimesDec(totalGrowthThisPeriod, Dec(WITHDRAWABLE_PERCENT, 0 - 2))
         IN  [totalGrowth |-> MoneyText(totalGrowthThisPeriod),
              withdrawableAmount |-> MoneyText(withdrawableAmount)]

----------------------------------------------------------------------------
(* The clock: new Date() *)

StartDate == << 2024, 1, 27 >>          \* 27 February 2024 (months are 0-based)

IsLeapYear(y) == (y % 4 = 0 /\ y % 100 # 0) \/ y % 400 = 0

\* new Date(year, month + 1, 0).getDate(): the last day of the month.
LastDayOfMonth(y, m) ==
    IF m = 1 THEN (IF IsLeapYear(y) THEN 29 ELSE 28)
    ELSE IF m \in {3, 5, 8, 10} THEN 30 ELSE 31

NextDay(date) ==
    IF date[3] < LastDayOfMonth(date[1], date[2]) THEN << date[1], date[2], date[3] + 1 >>
    ELSE IF date[2] < 11 THEN << date[1], date[2] + 1, 1 >>
    ELSE << date[1] + 1, 0, 1 >>

RECURSIVE DateAt(_)
DateAt(n) == IF n = 0 THEN StartDate ELSE NextDay(DateAt(n - 1))

Dates == { DateAt(n) : n \in 0..MaxDays }

\* new Date().toDateString(): one text per calendar date.
toDateString(date) ==
    ToString(date[1]) \o "-" \o ToString(date[2] + 1) \o "-" \o ToString(date[3])

----------------------------------------------------------------------------
(* The store adapter: getLocalStorageItem / setLocalStorageItem *)

UpdateValues == {0} \cup { 50 * Pow10(k) : k \in 0..MaxUpdateExp }

InitialBalanceDefault(instrument) == IF instrument = "gold" THEN 500 ELSE 50

\* The values of each stored type that the model can hold.
JSONvalues(kind) ==
    CASE kind = "number"  -> UpdateValues \cup { InitialBalanceDefault(i) : i \in Instruments }
                                 \cup (0..(MaxTrades + 1))
      [] kind = "string"  -> {""} \cup { toDateString(d) : d \in Dates }
      [] kind = "boolean" -> BOOLEAN

JSONstringify(kind, v) ==
    CASE kind = "number"  -> ToString(v)
      [] kind = "string"  -> "\"" \o v \o "\""
      [] kind = "boolean" -> IF v THEN "true" ELSE "false"

\* JSON.parse(text) as T; Parses(kind, text) is FALSE when JSON.parse throws.
Parses(kind, text) == \E v \in JSONvalues(kind) : JSONstringify(kind, v) = text
JSONparse(kind, text) == CHOOSE v \in JSONvalues(kind) : JSONstringify(kind, v) = text

getLocalStorageItem(store, key, defaultValue, kind) ==
    IF key \notin DOMAIN store THEN defaultValue
    ELSE IF Parses(kind, store[key]) THEN JSONparse(kind, store[key])
    ELSE defaultValue

setLocalStorageItem(store, key, value, kind) ==
    IF storageWritable
    THEN [k \in DOMAIN store \cup {key} |->
              IF k = key THEN JSONstringify(kind, value) ELSE store[k]]
    ELSE store

\* Mutant of getLsKey: the key is not scoped by the instrument.
getLsKeyUnscoped(instrument, baseKey) == baseKey

getLsKey(instrument, baseKey) == instrument \o "_" \o baseKey

reminderKey(date) ==
    "eomReminder_" \o ToString(date[1]) \o "_" \o ToString(date[2])

----------------------------------------------------------------------------
(* The dashboard state controller: useDashboardState *)

NoUpdates == [currentBalance |-> << >>, tradesToday |-> << >>,
              lastTradeDate |-> << >>, tradePlan |-> << >>]

\* A setter call: the last value set before the next render wins.
SetState(q, field, v) == [q EXCEPT ![field] = << v >>]

Mounted == instrumentType # "none"
Settled == Mounted /\ effects = << >> /\ queued = NoUpdates

\* lastOp: the event, its argument, and what the controller and the store
\* held when it began.
NoOp == [op |-> "none", newBalance |-> 0, balanceBefore |-> 0, tradesBefore |-> 0,
         newDay |-> FALSE, hadBalance |-> FALSE, reminded |-> FALSE]

\* The number of trades in the groups before position gi:
\* the loop of updateTradesDisplay over basePlan.groups[i].trades.length.
RECURSIVE TradesBefore(_, _)
TradesBefore(groups, gi) ==
    IF gi <= 1 THEN 0
    ELSE TradesBefore(groups, gi - 1) + Len(groups[gi - 1].trades)

\* basePlan.groups.findIndex(g => g.groupNumber === n), 1-based.
FindIndex(groups, n) ==
    CHOOSE gi \in 1..Len(groups) :
        /\ groups[gi].groupNumber = n
        /\ \A gj \in 1..(gi - 1) : groups[gj].groupNumber # n

StatusOf(trades, overallTradeIndex) ==
    IF trades > overallTradeIndex THEN "Completed" ELSE "Pending"

\* Mutant of UpdatedGroups: the index of a trade within its own group is taken
\* for its overall index.
UpdatedGroupsNoOffset(basePlan, trades) ==
    [gi \in 1..Len(basePlan.groups) |->
       LET group == basePlan.groups[gi]
       IN  [group EXCEPT !.trades =
              [index \in 1..Len(group.trades) |->
                 [group.trades[index] EXCEPT
                    !.status = StatusOf(trades, index - 1),
                    !.tradeNumber = index - 1]]]]

\* updateTradesDisplay, basePlan.groups.map(...): the groups with every trade's
\* status and tradeNumber set.
UpdatedGroups(basePlan, trades) ==
    [gi \in 1..Len(basePlan.groups) |->
       LET group == basePlan.groups[gi]
           offset == TradesBefore(basePlan.groups,
                                  FindIndex(basePlan.groups, group.groupNumber))
       IN  [group EXCEPT !.trades =
              [index \in 1..Len(group.trades) |->
                 [group.trades[index] EXCEPT
                    !.status = StatusOf(trades, (index - 1) + offset),
                    !.tradeNumber = (index - 1) + offset]]]]

\* The same map in the earlier revision of the hook (unnamed/part_004):
\* overallTradeIndex is index in group 1, groups[0].trades.length + index in
\* any other group.
UpdatedGroupsEarlier(basePlan, trades) ==
    [gi \in 1..Len(basePlan.groups) |->
       LET group == basePlan.groups[gi]
           offset == IF group.groupNumber = 1 THEN 0
                     ELSE Len(basePlan.groups[1].trades)
       IN  [group EXCEPT !.trades =
              [index \in 1..Len(group.trades) |->
                 [group.trades[index] EXCEPT
                    !.status = StatusOf(trades, (index - 1) + offset),
                    !.tradeNumber = (index - 1) + offset]]]]

\* updateTradesDisplay: the value it hands to setTradePlan.
updateTradesDisplay(balance, trades, instrument) ==
    IF balance <= 0 THEN << >>
    ELSE
      LET basePlan == calculateTradeGroupsLogic(balance, instrument)
          remaining == basePlan.totalTradesRequired - trades
      IN  << [dailyTarget |-> basePlan.dailyTarget,
              totalTradesRequired |-> basePlan.totalTradesRequired,
              groups |-> UpdatedGroups(basePlan, trades),
              completedTrades |-> trades,
              remainingTrades |-> IF remaining > 0 THEN remaining ELSE 0] >>

\* checkEndOfMonthReminder: the store and the notifications after one check.
\* Mutant of ReminderDue: the recorded flag is not consulted.
ReminderDueAnyCheck(store, date) ==
    date[3] = LastDayOfMonth(date[1], date[2])

\* Mutant of ReminderDue: February always ends on the 28th.
ReminderDueNoLeapYear(store, date) ==
    /\ date[3] = (IF date[2] = 1 THEN 28 ELSE LastDayOfMonth(date[1], date[2]))
    /\ ~ getLocalStorageItem(store, reminderKey(date), FALSE, "boolean")

ReminderDue(store, date) ==
    /\ date[3] = LastDayOfMonth(date[1], date[2])
    /\ ~ getLocalStorageItem(store, reminderKey(date), FALSE, "boolean")

Toast(log, key) ==
    [k \in DOMAIN log \cup {key} |-> IF k \in DOMAIN log THEN log[k] + (IF k = key THEN 1 ELSE 0)
                                     ELSE 1]

checkEndOfMonthReminder ==
    IF ReminderDue(ls, today)
    THEN /\ toasts' = Toast(toasts, reminderKey(today))
         /\ ls' = setLocalStorageItem(ls, reminderKey(today), TRUE, "boolean")
    ELSE UNCHANGED << toasts, ls >>

EffectsOnMount == << "load", "rollover", "display", "persistBalance",
                     "persistTrades", "reminder" >>

\* First render and commit of the hook on a dashboard page.
Mount(i) ==
    /\ ~ Mounted
    /\ instrumentType' = i
    /\ currentBalance' = InitialBalanceDefault(i)
    /\ tradesToday' = 0
    /\ lastTradeDate' = ""
    /\ tradePlan' = << >>
    /\ queued' = NoUpdates
    /\ effects' = EffectsOnMount
    /\ lastOp' = [op |-> "mount", newBalance |-> 0,
                  balanceBefore |-> getLocalStorageItem(ls, getLsKey(i, "currentBalance"),
                                        InitialBalanceDefault(i), "number"),
                  tradesBefore |-> getLocalStorageItem(ls, getLsKey(i, "tradesToday"),
                                        0, "number"),
                  newDay |-> getLocalStorageItem(ls, getLsKey(i, "lastTradeDate"),
                                        toDateString(today), "string") # toDateString(today),
                  hadBalance |-> getLsKey(i, "currentBalance") \in DOMAIN ls,
                  reminded |-> FALSE]
    /\ UNCHANGED << today, ls, storageWritable, toasts, call >>

\* Leaving the page or closing the tab: the hook's state is dropped, the
\* interval is cleared, localStorage stays.
Unmount ==
    /\ Mounted
    /\ instrumentType' = "none"
    /\ currentBalance' = 0
    /\ tradesToday' = 0
    /\ lastTradeDate' = ""
    /\ tradePlan' = << >>
    /\ queued' = NoUpdates
    /\ effects' = << >>
    /\ lastOp' = [NoOp EXCEPT !.op = "unmount"]
    /\ UNCHANGED << today, ls, storageWritable, toasts, call >>

EffectStep(name) ==
    /\ Mounted
    /\ effects # << >>
    /\ Head(effects) = name
    /\ effects' = Tail(effects)
    /\ UNCHANGED << today, storageWritable, instrumentType, currentBalance,
                    tradesToday, lastTradeDate, tradePlan, lastOp, call >>

\* useEffect, lines 38-42
LoadEffect ==
    /\ EffectStep("load")
    /\ queued' =
         SetState(SetState(SetState(queued,
           "currentBalance",
             getLocalStorageItem(ls, getLsKey(instrumentType, "currentBalance"),
                                 InitialBalanceDefault(instrumentType), "number")),
           "tradesToday",
             getLocalStorageItem(ls, getLsKey(instrumentType, "tradesToday"), 0, "number")),
           "lastTradeDate",
             getLocalStorageItem(ls, getLsKey(instrumentType, "lastTradeDate"),
                                 toDateString(today), "string"))
    /\ UNCHANGED << ls, toasts >>

RolloverDue(date, last) == toDateString(date) # last

\* useEffect, lines 44-52
RolloverEffect ==
    /\ EffectStep("rollover")
    /\ IF RolloverDue(today, lastTradeDate)
       THEN /\ queued' = SetState(SetState(queued, "tradesToday", 0),
                                  "lastTradeDate", toDateString(today))
            /\ ls' = setLocalStorageItem(
                       setLocalStorageItem(ls, getLsKey(instrumentType, "tradesToday"),
                                           0, "number"),
                       getLsKey(instrumentType, "lastTradeDate"),
                       toDateString(today), "string")
       ELSE UNCHANGED << queued, ls >>
    /\ UNCHANGED toasts

\* useEffect, lines 86-88
DisplayEffect ==
    /\ EffectStep("display")
    /\ queued' = SetState(queued, "tradePlan",
                          updateTradesDisplay(currentBalance, tradesToday, instrumentType))
    /\ UNCHANGED << ls, toasts >>

\* Mutant of PersistBalanceEffect: the balance is never written to the store.
PersistBalanceEffectNoWrite ==
    /\ EffectStep("persistBalance")
    /\ queued' = SetState(queued, "tradePlan",
                          updateTradesDisplay(currentBalance, tradesToday, instrumentType))
    /\ UNCHANGED << ls, toasts >>

\* useEffect, lines 91-94
PersistBalanceEffect ==
    /\ EffectStep("persistBalance")
    /\ ls' = setLocalStorageItem(ls, getLsKey(instrumentType, "currentBalance"),
                                 currentBalance, "number")
    /\ queued' = SetState(queued, "tradePlan",
                          updateTradesDisplay(currentBalance, tradesToday, instrumentType))
    /\ UNCHANGED toasts

\* Mutant of PersistTradesEffect: the counter is never written to the store.
PersistTradesEffectNoWrite ==
    /\ EffectStep("persistTrades")
    /\ queued' = SetState(queued, "tradePlan",
                          updateTradesDisplay(currentBalance, tradesToday, instrumentType))
    /\ UNCHANGED << ls, toasts >>

\* useEffect, lines 96-99
PersistTradesEffect ==
    /\ EffectStep("persistTrades")
    /\ ls' = setLocalStorageItem(ls, getLsKey(instrumentType, "tradesToday"),
                                 tradesToday, "number")
    /\ queued' = SetState(queued, "tradePlan",
                          updateTradesDisplay(currentBalance, tradesToday, instrumentType))
    /\ UNCHANGED toasts

\* useEffect, lines 137-141: the check at mount; the interval starts here.
ReminderEffect ==
    /\ EffectStep("reminder")
    /\ checkEndOfMonthReminder
    /\ UNCHANGED queued

\* setInterval(checkEndOfMonthReminder, 6 hours)
TimerTick ==
    /\ Mounted
    /\ \A n \in 1..Len(effects) : effects[n] # "reminder"
    /\ checkEndOfMonthReminder
    /\ lastOp' = [NoOp EXCEPT !.op = "timerTick",
                              !.reminded = getLocalStorageItem(ls, reminderKey(today),
                                                               FALSE, "boolean")]
    /\ UNCHANGED << today, storageWritable, instrumentType, currentBalance, tradesToday,
                    lastTradeDate, tradePlan, queued, effects, call >>

Latest(q, field, old) == IF q[field] = << >> THEN old ELSE q[field][1]

\* Mutant of Commit: the display and persist effects depend on the balance
\* only, so a commit that changes the counter alone schedules none of them.
CommitBalanceOnly(q) ==
    LET balance == Latest(q, "currentBalance", currentBalance)
        trades  == Latest(q, "tradesToday", tradesToday)
        date    == Latest(q, "lastTradeDate", lastTradeDate)
    IN  /\ currentBalance' = balance
        /\ tradesToday' = trades
        /\ lastTradeDate' = date
        /\ tradePlan' = Latest(q, "tradePlan", tradePlan)
        /\ queued' = NoUpdates
        /\ effects' = (IF date # lastTradeDate THEN << "rollover" >> ELSE << >>)
                      \o (IF balance # currentBalance
                          THEN << "display", "persistBalance", "persistTrades" >>
                          ELSE << >>)

\* A render that applies the queued updates, and the effects its commit
\* schedules: those whose dependency lists changed.
Commit(q) ==
    LET balance == Latest(q, "currentBalance", currentBalance)
        trades  == Latest(q, "tradesToday", tradesToday)
        date    == Latest(q, "lastTradeDate", lastTradeDate)
        displayChanged == balance # currentBalance \/ trades # tradesToday
    IN  /\ currentBalance' = balance
        /\ tradesToday' = trades
        /\ lastTradeDate' = date
        /\ tradePlan' = Latest(q, "tradePlan", tradePlan)
        /\ queued' = NoUpdates
        /\ effects' = (IF date # lastTradeDate THEN << "rollover" >> ELSE << >>)
                      \o (IF displayChanged
                          THEN << "display", "persistBalance", "persistTrades" >>
                          ELSE << >>)

Render ==
    /\ Mounted
    /\ effects = << >>
    /\ queued # NoUpdates
    /\ Commit(queued)
    /\ UNCHANGED << today, ls, storageWritable, instrumentType, toasts, lastOp, call >>

\* let updatedTradesToday ... updatedTradesToday++ (lines 104-114)
BalanceDiffers(newBalance, balance, stored) == newBalance # balance \/ stored # newBalance

\* Mutants of UpdatedTradesToday: count every call; keep yesterday's count;
\* count a changed balance twice.
UpdatedTradesTodayAlways(trades, newDay, differs) ==
    (IF newDay THEN 0 ELSE trades) + 1

UpdatedTradesTodayNoReset(trades, newDay, differs) ==
    trades + (IF differs THEN 1 ELSE 0)

UpdatedTradesTodayTwice(trades, newDay, differs) ==
    (IF newDay THEN 0 ELSE trades) + (IF differs THEN 2 ELSE 0)

UpdatedTradesToday(trades, newDay, differs) ==
    (IF newDay THEN 0 ELSE trades) + (IF differs THEN 1 ELSE 0)

\* handleUpdateBalance(newBalance), with the render React performs at the
\* end of the click that called it.
handleUpdateBalance(newBalance) ==
    LET newDay == RolloverDue(today, lastTradeDate)
        stored == getLocalStorageItem(ls, getLsKey(instrumentType, "currentBalance"),
                                      InitialBalanceDefault(instrumentType), "number")
        updatedTradesToday ==
            UpdatedTradesToday(tradesToday, newDay,
                               BalanceDiffers(newBalance, currentBalance, stored))
        q0 == IF newDay THEN SetState(queued, "lastTradeDate", toDateString(today))
              ELSE queued
    IN  /\ Settled
        /\ tradesToday < MaxTrades
        /\ ls' = IF newDay
                 THEN setLocalStorageItem(ls, getLsKey(instrumentType, "lastTradeDate"),
                                          toDateString(today), "string")
                 ELSE ls
        /\ Commit(SetState(SetState(q0, "tradesToday", updatedTradesToday),
                           "currentBalance", newBalance))
        /\ lastOp' = [op |-> "handleUpdateBalance", newBalance |-> newBalance,
                      balanceBefore |-> currentBalance, tradesBefore |-> tradesToday,
                      newDay |-> newDay,
                      hadBalance |-> getLsKey(instrumentType, "currentBalance") \in DOMAIN ls,
                      reminded |-> FALSE]
        /\ UNCHANGED << today, storageWritable, instrumentType, toasts, call >>

\* Midnight passes.
AdvanceDate ==
    /\ today # DateAt(MaxDays)
    /\ today' = NextDay(today)
    /\ lastOp' = [NoOp EXCEPT !.op = "advanceDate"]
    /\ UNCHANGED << ls, storageWritable, instrumentType, currentBalance, tradesToday,
                    lastTradeDate, tradePlan, queued, effects, toasts, call >>

NoCall == [fn |-> "none", args |-> << >>, done |-> FALSE, result |-> << >>]

Init ==
    /\ today = StartDate
    /\ ls = [k \in {} |-> ""]
    /\ storageWritable = TRUE
    /\ instrumentType = "none"
    /\ currentBalance = 0
    /\ tradesToday = 0
    /\ lastTradeDate = ""
    /\ tradePlan = << >>
    /\ queued = NoUpdates
    /\ effects = << >>
    /\ toasts = [k \in {} |-> 0]
    /\ lastOp = NoOp
    /\ call = NoCall

Next ==
    \/ \E i \in Instruments : Mount(i)
    \/ Unmount
    \/ LoadEffect
    \/ RolloverEffect
    \/ DisplayEffect
    \/ PersistBalanceEffect
    \/ PersistTradesEffect
    \/ ReminderEffect
    \/ Render
    \/ \E v \in UpdateValues : handleUpdateBalance(v)
    \/ TimerTick
    \/ AdvanceDate

Spec == Init /\ [][Next]_vars

----------------------------------------------------------------------------
(* Claims about the controller, checked under Spec *)

Persisted(baseKey, kind, v) ==
    /\ getLsKey(instrumentType, baseKey) \in DOMAIN ls
    /\ ls[getLsKey(instrumentType, baseKey)] = JSONstringify(kind, v)

\* C1 (as stated): the trades-today counter goes back to 0 only when the
\* local date differs from the persisted last-trade-date; in particular a
\* mount on the same local date as the persisted last-trade-date ends with
\* the counter equal to the persisted trade counter.
C1_MountOnSameDateKeepsCounter ==
    (lastOp.op = "mount" /\ ~ lastOp.newDay /\ Settled)
        => tradesToday = lastOp.tradesBefore

C18_CounterNeverNegativeStepsByOne ==
    /\ tradesToday \in Nat
    /\ lastOp.op = "handleUpdateBalance" =>
          tradesToday <= (IF lastOp.newDay THEN 0 ELSE lastOp.tradesBefore) + 1

\* C18 witness: a second counted update on the same day took the counter
\* from 1 to 2.
C18_Witness ==
    /\ lastOp.op = "handleUpdateBalance" /\ ~ lastOp.newDay
    /\ lastOp.tradesBefore = 1 /\ lastOp.newBalance # lastOp.balanceBefore
    /\ tradesToday = 2

\* The text stored under a key, << >> when there is none.
StoredText(store, key) == IF key \in DOMAIN store THEN << store[key] >> ELSE << >>

BaseKeys == {"currentBalance", "tradesToday", "lastTradeDate"}

C21_SettledPlanIsCurrent ==
    Settled =>
       /\ (tradePlan = << >>) <=> (currentBalance <= 0)
       /\ tradePlan = updateTradesDisplay(currentBalance, tradesToday, instrumentType)

\* C21 witness: an update on a new day to the balance already held has settled;
\* the counter went from 1 back to 0 and the plan shows no completed trade.
C21_Witness ==
    /\ Settled /\ lastOp.op = "handleUpdateBalance" /\ lastOp.newDay
    /\ lastOp.newBalance = lastOp.balanceBefore /\ lastOp.tradesBefore = 1
    /\ tradePlan # << >>
    /\ tradePlan[1].completedTrades = 0
    /\ tradePlan[1].groups[1].trades[1].status = "Pending"

\* C22 (as stated): in every trade plan that is not null, completedTrades +
\* remainingTrades = totalTradesRequired, completedTrades <=
\* totalTradesRequired and remainingTrades is not negative.
C22_CompletedPlusRemainingIsTotal ==
    (Mounted /\ tradePlan # << >>) =>
       LET plan == tradePlan[1]
       IN  /\ plan.completedTrades + plan.remainingTrades = plan.totalTradesRequired
           /\ plan.completedTrades <= plan.totalTradesRequired
           /\ plan.remainingTrades >= 0

\* C23 (as stated): from a mount until the next controller event, at no step
\* is a balance that was in the store replaced by the hook's initial value:
\* the balance key holds what the mount found there.
C23_MountNeverOverwritesStored ==
    (lastOp.op = "mount" /\ lastOp.hadBalance) =>
       Persisted("currentBalance", "number", lastOp.balanceBefore)

\* The reminder flags of a store.
ReminderFlags(store) == { d \in Dates : reminderKey(d) \in DOMAIN store }

\* C28: a step emits the end-of-month notification, or records a reminder
\* flag, only if the local date of that step is the last calendar day of its
\* month (29 February in 2024), and then for that month; a check on any other
\* day emits nothing and records nothing.
C28_ReminderOnlyOnLastDay ==
    [][(toasts' # toasts \/ ReminderFlags(ls') # ReminderFlags(ls)) =>
          /\ today' = today
          /\ today[3] = LastDayOfMonth(today[1], today[2])
          /\ today \notin {<< 2024, 1, 27 >>, << 2024, 1, 28 >>, << 2024, 2, 1 >>}
          /\ toasts' = Toast(toasts, reminderKey(today))
          /\ reminderKey(today) \in DOMAIN ls']_vars

\* C28 witness: a timer tick on 29 February 2024 found no flag; the month's
\* notification is out and its flag is stored.
C28_Witness ==
    /\ lastOp.op = "timerTick" /\ ~ lastOp.reminded
    /\ today = << 2024, 1, 29 >>
    /\ reminderKey(today) \in DOMAIN toasts
    /\ reminderKey(today) \in DOMAIN ls

\* A timer tick on 28 February 2024 has emitted and recorded nothing.
C28_WitnessDayBefore ==
    /\ lastOp.op = "timerTick" /\ today = << 2024, 1, 28 >>
    /\ toasts = [k \in {} |-> 0] /\ ReminderFlags(ls) = {}

\* C24: in every settled state (storage writes succeeding) the store holds,
\* under the instrument's currentBalance, tradesToday and lastTradeDate keys,
\* the balance, the trade counter and the last-trade-date the controller holds
\* in memory.
C24_SettledStoreMatchesMemory ==
    (Settled /\ storageWritable) =>
       /\ Persisted("currentBalance", "number", currentBalance)
       /\ Persisted("tradesToday", "number", tradesToday)
       /\ Persisted("lastTradeDate", "string", lastTradeDate)

\* C24 witness: the day after a day with one trade, a changed balance has been
\* entered and has settled: balance, counter 1 and the new date are stored.
C24_Witness ==
    /\ Settled /\ storageWritable
    /\ lastOp.op = "handleUpdateBalance" /\ lastOp.newDay /\ lastOp.tradesBefore = 1
    /\ lastOp.newBalance # lastOp.balanceBefore
    /\ today # StartDate
    /\ Persisted("currentBalance", "number", lastOp.newBalance)
    /\ Persisted("tradesToday", "number", 1)
    /\ Persisted("lastTradeDate", "string", toDateString(today))

----------------------------------------------------------------------------
(* The calculation engine on its own: every call of a bounded input set *)

PositiveBalances == { m * Pow10(e) : m \in 1..MaxMantissa, e \in 0..MaxExp }
EngineBalances == PositiveBalances \cup {0} \cup { 0 - b : b \in PositiveBalances }

\* Balances the trade calculator is tried with.
CalculatorBalances ==
    {0 - 1, 0} \cup { Pow10(e) : e \in 0..MaxExp } \cup { MaxMantissa * Pow10(MaxExp) }

\* Pip distances; 0 stands for a pip count that is missing or not positive.
PipValues == {0} \cup { p * Pow10(e) : p \in {1, 2, 5}, e \in 0..MaxPipExp }

\* Entry prices in 1/PRICE_SCALE: 0, 0.0001 ... 2000.5, and two negative ones.
EntryPrices ==
    { w * PRICE_SCALE + f : w \in {0, 1, 2000}, f \in {0, 1, 1250, 2500, 5000} }
        \cup { 0 - PRICE_SCALE, 0 - 5000 }

TradePointsParams ==
    [entryPrice : EntryPrices, direction : {"rise", "fall"}, customTP : PipValues,
     customSL : PipValues, currentBalance : CalculatorBalances,
     instrumentType : Instruments]

BalanceArgs == [balance : EngineBalances, instrumentType : Instruments]

\* Balances for the first revision of calculateTradeGroupsLogic: those of the
\* last revision, 1010 (a group target that is not a whole number of 0.01 lots)
\* and 30,000,000 (a group target above 100 trades of 5 lots).
GroupArgs ==
    [balance : PositiveBalances \cup {50, 1010, 1050, 300000, 600000, 30000000},
     instrumentType : Instruments]

Pending(fn, args) == [fn |-> fn, args |-> args, done |-> FALSE, result |-> << >>]

EngineInit ==
    /\ today = StartDate
    /\ ls = [k \in {} |-> ""]
    /\ storageWritable = TRUE
    /\ instrumentType = "none"
    /\ currentBalance = 0
    /\ tradesToday = 0
    /\ lastTradeDate = ""
    /\ tradePlan = << >>
    /\ queued = NoUpdates
    /\ effects = << >>
    /\ toasts = [k \in {} |-> 0]
    /\ lastOp = NoOp
    /\ call \in { Pending("calculateTradeGroupsLogic", a) : a \in BalanceArgs }
                \cup { Pending("metrics", a) : a \in BalanceArgs }
                \cup { Pending("calculateTradeGroupsLogicEarlier", a) : a \in GroupArgs }
                \cup { Pending("calculateTradePointsLogic", a) : a \in TradePointsParams }

Return(result) == call' = [call EXCEPT !.done = TRUE, !.result = result]

CalculateTradeGroups ==
    /\ ~ call.done /\ call.fn = "calculateTradeGroupsLogic"
    /\ Return(calculateTradeGroupsLogic(call.args.balance, call.args.instrumentType))
    /\ UNCHANGED ctrlVars

CalculateTradeGroupsEarlier ==
    /\ ~ call.done /\ call.fn = "calculateTradeGroupsLogicEarlier"
    /\ Return(calculateTradeGroupsLogicEarlier(call.args.balance, call.args.instrumentType))
    /\ UNCHANGED ctrlVars

CalculateTradePoints ==
    /\ ~ call.done /\ call.fn = "calculateTradePointsLogic"
    /\ Return(calculateTradePointsLogic(call.args))
    /\ UNCHANGED ctrlVars

RenderMetrics ==
    /\ ~ call.done /\ call.fn = "metrics"
    /\ Return(metrics(call.args.balance, call.args.instrumentType))
    /\ UNCHANGED ctrlVars

EngineNext ==
    \/ CalculateTradeGroups
    \/ CalculateTradeGroupsEarlier
    \/ CalculateTradePoints
    \/ RenderMetrics

EngineSpec == EngineInit /\ [][EngineNext]_vars

Returned(fn) == call.done /\ call.fn = fn

\* The lot range and lot grid of the claim: gold 0.01..5.00 in steps of 0.01,
\* volatility75 0.001..5.00 in steps of 0.001 (milli-lots).
LotWithinRange(lots, instrument) ==
    IF instrument = "gold" THEN lots >= 10 /\ lots <= 5000 /\ lots % 10 = 0
    ELSE lots >= 1 /\ lots <= 5000

\* C7: for every balance > 0 and both instruments, every lot size put out -
\* each trade's lots in the trade plan, the calculator's recommended lot size
\* (positive custom stop-loss pips, entry price > 0) and the "Rec. Lot Size"
\* metric - lies within [minLot, maxLot] of the instrument, on its lot grid.
C7_LotsWithinInstrumentRange ==
    /\ (Returned("calculateTradeGroupsLogic") /\ call.args.balance > 0) =>
          \A gi \in 1..Len(call.result.groups) :
             \A ti \in 1..Len(call.result.groups[gi].trades) :
                LotWithinRange(call.result.groups[gi].trades[ti].lots,
                               call.args.instrumentType)
    /\ (Returned("calculateTradePointsLogic") /\ call.args.currentBalance > 0
          /\ call.args.entryPrice > 0 /\ call.args.customSL > 0) =>
          LotWithinRange(call.result.calculatedLots, call.args.instrumentType)
    /\ (Returned("metrics") /\ call.args.balance > 0) =>
          LotWithinRange(call.result.lotSize, call.args.instrumentType)

\* C7 witness: the gold calculator with a 1-pip stop loss on a balance of
\* 1,000,000 returns the maximum, 5.00 lots.
C7_Witness ==
    /\ Returned("calculateTradePointsLogic")
    /\ call.args.instrumentType = "gold" /\ call.args.currentBalance = 1000000
    /\ call.args.customSL = 1 /\ call.args.entryPrice > 0
    /\ call.result.calculatedLots = 5000

C10_EmptyPlanForNonPositiveBalance ==
    (Returned("calculateTradeGroupsLogic") /\ call.args.balance <= 0) =>
       /\ call.result.totalTradesRequired = 0
       /\ call.result.dailyTarget = 0
       /\ call.result.groups = << >>

\* C10 witness: the plan of balance -5 on volatility75 has been returned, and
\* it is empty.
C10_Witness ==
    /\ Returned("calculateTradeGroupsLogic")
    /\ call.args.balance = 0 - 5 /\ call.args.instrumentType = "volatility75"
    /\ call.result.totalTradesRequired = 0 /\ call.result.groups = << >>

\* C14 (as stated): for volatility75 and balance 1000 the raw lot
\* 1000 * 1% / 500 is 0.02, and for every balance whose raw lot is inside
\* [0.001, 5.00] (balances 50 to 250000) the trade's expected percent gain,
\* lot * takeProfitPips * valuePerPip / balance * 100, is about 2: between
\* 1.90 and 2.10.
C14_ExpectedPercentIsDailyTarget ==
    (Returned("calculateTradeGroupsLogic") /\ call.args.instrumentType = "volatility75"
       /\ call.args.balance >= 50 /\ call.args.balance <= 250000) =>
       LET trade == call.result.groups[1].trades[1]
       IN  /\ call.args.balance = 1000 => trade.lots = 20
           /\ trade.percent >= 190 /\ trade.percent <= 210

\* C25: for every balance > 0 and both instruments, the "Rec. Lot Size" metric
\* of the dashboard is the lots of the trade in the plan
\* calculateTradeGroupsLogic computes for the same balance, and the amount of
\* the "Today's Target" metric is that plan's dailyTarget.
C25_MetricsAgreeWithPlan ==
    (Returned("metrics") /\ call.args.balance > 0) =>
       LET plan == calculateTradeGroupsLogic(call.args.balance, call.args.instrumentType)
       IN  /\ call.result.lotSize = plan.groups[1].trades[1].lots
           /\ call.result.dailyTargetValue = plan.dailyTarget

\* C25 witness: volatility 75 at 4000, above the minimum lot and below the
\* maximum: 0.080 lot and a target of 160 in the metrics.
C25_Witness ==
    /\ Returned("metrics") /\ call.args.instrumentType = "volatility75"
    /\ call.args.balance = 4000
    /\ call.result.lotSize = 80 /\ call.result.dailyTargetValue = 160

\* A plan returned by either revision of calculateTradeGroupsLogic for a
\* balance > 0.
PlanReturned ==
    /\ Returned("calculateTradeGroupsLogic") \/ Returned("calculateTradeGroupsLogicEarlier")
    /\ call.args.balance > 0

\* C26: for every balance > 0 and both instruments, totalTradesRequired of the
\* plan calculateTradeGroupsLogic returns is the sum of the numbers of trades of
\* all its groups, and the volatility 75 plan is exactly one group of exactly
\* one trade.
C26_TotalIsSumOfGroupTrades ==
    PlanReturned =>
       LET groups == call.result.groups
       IN  /\ call.result.totalTradesRequired = TradesBefore(groups, Len(groups) + 1)
           /\ call.args.instrumentType = "volatility75"
                 => Len(groups) = 1 /\ Len(groups[1].trades) = 1

\* C26 witness: the first revision's gold plan at 600,000: two groups of three
\* trades, six trades required.
C26_Witness ==
    /\ Returned("calculateTradeGroupsLogicEarlier")
    /\ call.args.instrumentType = "gold" /\ call.args.balance = 600000
    /\ Len(call.result.groups) = 2
    /\ Len(call.result.groups[1].trades) = 3 /\ Len(call.result.groups[2].trades) = 3
    /\ call.result.totalTradesRequired = 6

\* C27 (as stated): for gold and any balance > 0 the plan has exactly two
\* groups of exactly two trades each, and totalTradesRequired = 4.
C27_GoldTwoGroupsOfTwo ==
    (PlanReturned /\ call.args.instrumentType = "gold") =>
       /\ Len(call.result.groups) = 2
       /\ \A gi \in 1..Len(call.result.groups) : Len(call.result.groups[gi].trades) = 2
       /\ call.result.totalTradesRequired = 4

\* C27 (amended): for gold and any balance > 0 the plan of the last revision is
\* one group of one trade with totalTradesRequired = 1; the plan of the first
\* revision is two groups holding the same number of trades, at least one and
\* at most TRADE_COUNTER_LIMIT each, with totalTradesRequired twice that number.
C27_GoldOneTradeOrTwoEqualGroups ==
    (PlanReturned /\ call.args.instrumentType = "gold") =>
       LET groups == call.result.groups
       IN  IF call.fn = "calculateTradeGroupsLogic"
           THEN /\ Len(groups) = 1 /\ Len(groups[1].trades) = 1
                /\ call.result.totalTradesRequired = 1
           ELSE /\ Len(groups) = 2
                /\ Len(groups[1].trades) \in 1..TRADE_COUNTER_LIMIT
                /\ Len(groups[2].trades) = Len(groups[1].trades)
                /\ call.result.totalTradesRequired = 2 * Len(groups[1].trades)

\* C27 witness: the last revision's gold plan at 5000 is a single trade of
\* 0.05 lot.
C27_Witness ==
    /\ Returned("calculateTradeGroupsLogic")
    /\ call.args.instrumentType = "gold" /\ call.args.balance = 5000
    /\ Len(call.result.groups) = 1
    /\ call.result.groups[1].trades = << [lots |-> 50, profit |-> 100, percent |-> 200,
                                          status |-> "Pending", tradeNumber |-> 0] >>

\* The first revision's gold plan at 1050 does have two groups of two trades.
C27_WitnessTwoByTwo ==
    /\ Returned("calculateTradeGroupsLogicEarlier")
    /\ call.args.instrumentType = "gold" /\ call.args.balance = 1050
    /\ call.result.totalTradesRequired = 4

\* C29 (as stated): a take-profit or stop-loss price that
\* calculateTradePointsLogic returns and that is not the sentinel is strictly
\* positive, also for direction fall with a take-profit distance, or direction
\* rise with a stop-loss distance, of the entry price or more.
C29_ReturnedPricesArePositive ==
    Returned("calculateTradePointsLogic") =>
       /\ ~ call.result.tpCustom.unset => call.result.tpCustom.value > 0
       /\ ~ call.result.slPrice.unset => call.result.slPrice.value > 0

\* A gold plan of the first revision, returned for a balance > 0.
GoldGroupsReturned ==
    /\ Returned("calculateTradeGroupsLogicEarlier")
    /\ call.args.instrumentType = "gold" /\ call.args.balance > 0

\* The group's target lots, 1% of the balance / 500 and at least 0.01 lot, in
\* hundred-thousandths of a lot: 2 per dollar of balance.
TargetLots(balance) == IF 2 * balance > 1000 THEN 2 * balance ELSE 1000

\* The lots of a group's trades, in hundred-thousandths of a lot.
GroupLots(group) == 100 * group.totalLots

\* The loop ended within its TRADE_COUNTER_LIMIT passes with at least one
\* trade, every trade between 0.01 and 5.00 lots.
GroupWellFormed(group) ==
    /\ Len(group.trades) \in 1..TRADE_COUNTER_LIMIT
    /\ \A t \in 1..Len(group.trades) :
          group.trades[t].lots >= 10 /\ group.trades[t].lots <= 5000

\* C30 (as stated): for every balance > 0 the gold group-building loop ends
\* after at most 100 passes, each group has at least one trade, every trade's
\* lots lie in [0.01, 5.00], and unless the 100-trade limit is reached the
\* lots of the group's trades add up to at least the group's target lots.
C30_GroupLotsReachTarget ==
    GoldGroupsReturned =>
       \A gi \in 1..Len(call.result.groups) :
          LET group == call.result.groups[gi]
          IN  /\ GroupWellFormed(group)
              /\ Len(group.trades) < TRADE_COUNTER_LIMIT
                    => GroupLots(group) >= TargetLots(call.args.balance)

\* C30 (amended): as above, but the lots of the group's trades add up to more
\* than the target lots less one thousandth of a lot.
C30_GroupLotsWithinThousandthOfTarget ==
    GoldGroupsReturned =>
       \A gi \in 1..Len(call.result.groups) :
          LET group == call.result.groups[gi]
          IN  /\ GroupWellFormed(group)
              /\ Len(group.trades) < TRADE_COUNTER_LIMIT
                    => GroupLots(group) > TargetLots(call.args.balance) - 100

\* C30 witness: at 300,000 the target of 6 lots is split into 5.00 and 1.00.
C30_Witness ==
    /\ GoldGroupsReturned /\ call.args.balance = 300000
    /\ Len(call.result.groups[1].trades) = 2
    /\ call.result.groups[1].trades[1].lots = 5000
    /\ call.result.groups[1].trades[2].lots = 1000
    /\ call.result.groups[1].totalLots = 6000

\* At 30,000,000 the limit of 100 trades is reached below the target of 600
\* lots.
C30_WitnessLimit ==
    /\ GoldGroupsReturned /\ call.args.balance = 30000000
    /\ Len(call.result.groups[1].trades) = 100
    /\ call.result.groups[1].totalLots = 500000

----------------------------------------------------------------------------
(* The input forms: TradeCalculatorSection, CompoundingCalculatorSection and
   ProgressSection, each on a dashboard whose hook has settled *)

\* parseFloat / parseInt of a text field: NaN, or the number read.
Parsed(v) == [nan |-> FALSE, value |-> v]
ParsedNaN == [nan |-> TRUE, value |-> 0]

FormPips == {ParsedNaN} \cup { Parsed(v) : v \in {0 - 1, 0, 1, 200} }
FormEntries == {ParsedNaN}
                  \cup { Parsed(v) : v \in {0 - PRICE_SCALE, 0, 15000, 2000 * PRICE_SCALE} }
FormBalances == {ParsedNaN} \cup { Parsed(v) : v \in {0 - 5} \cup UpdateValues }
FormAmounts == {NaN, Number(0 - 1, 5, 0), Number(1, 0, 0), Number(1, 1, 0 - 1),
                Number(1, 1, 3)}
FormPeriods == {ParsedNaN} \cup { Parsed(v) : v \in {0 - 1, 0, 1, 2} }
Frequencies == {"daily", "monthly", "yearly"}

\* What the component shows before the submission: nothing, or an earlier result.
EarlierTradePoints ==
    calculateTradePointsLogic([entryPrice |-> PRICE_SCALE, direction |-> "rise",
                               customTP |-> 1, customSL |-> 1, currentBalance |-> 50,
                               instrumentType |-> "gold"])
EarlierCompounding == calculateCompoundingLogic(Number(1, 1, 3), "daily", Parsed(1))

FormState(results) == [results |-> results, toast |-> "none", invoked |-> << >>]

TradeCalculatorForms ==
    { [fn |-> "TradeCalculatorSection", done |-> FALSE,
       args |-> [entryPrice |-> en, customTP |-> tp, customSL |-> sl, direction |-> d],
       result |-> FormState(r)] :
         en \in FormEntries, tp \in FormPips, sl \in FormPips, d \in {"rise", "fall"},
         r \in {<< >>, << EarlierTradePoints >>} }

CompoundingForms ==
    { [fn |-> "CompoundingCalculatorSection", done |-> FALSE,
       args |-> [initialBalance |-> b, frequency |-> f, period |-> n],
       result |-> FormState(r)] :
         b \in FormAmounts, f \in Frequencies, n \in FormPeriods,
         r \in {<< >>, << EarlierCompounding >>} }

ProgressForms(balance, trades) ==
    { [fn |-> "ProgressSection", done |-> FALSE,
       args |-> [dailyInput |-> b, balanceBefore |-> balance, tradesBefore |-> trades],
       result |-> FormState(<< >>)] : b \in FormBalances }

\* The hook at rest on a dashboard: everything loaded, persisted and displayed.
SettledDashboard(i, balance, trades) ==
    /\ today = StartDate
    /\ storageWritable = TRUE
    /\ instrumentType = i
    /\ currentBalance = balance
    /\ tradesToday = trades
    /\ lastTradeDate = toDateString(StartDate)
    /\ ls = setLocalStorageItem(
              setLocalStorageItem(
                setLocalStorageItem([k \in {} |-> ""], getLsKey(i, "currentBalance"),
                                    balance, "number"),
                getLsKey(i, "tradesToday"), trades, "number"),
              getLsKey(i, "lastTradeDate"), toDateString(StartDate), "string")
    /\ tradePlan = updateTradesDisplay(balance, trades, i)
    /\ queued = NoUpdates
    /\ effects = << >>
    /\ toasts = [k \in {} |-> 0]
    /\ lastOp = NoOp

FormsInit ==
    \E i \in Instruments, balance \in UpdateValues, trades \in 0..(MaxTrades - 1) :
       /\ SettledDashboard(i, balance, trades)
       /\ call \in TradeCalculatorForms \cup CompoundingForms
                      \cup ProgressForms(balance, trades)

Rejected == call' = [call EXCEPT !.done = TRUE, !.result.toast = "Invalid Input"]

Calculated(params, results) ==
    call' = [call EXCEPT !.done = TRUE, !.result.invoked = << params >>,
                         !.result.results = << results >>]

\* TradeCalculatorSection.handleCalculate
TradeCalculatorSubmit ==
    /\ call.fn = "TradeCalculatorSection" /\ ~ call.done
    /\ LET entry == call.args.entryPrice
           tpPips == call.args.customTP
           slPips == call.args.customSL
           params == [entryPrice |-> entry.value, direction |-> call.args.direction,
                      customTP |-> tpPips.value, customSL |-> slPips.value,
                      currentBalance |-> currentBalance,
                      instrumentType |-> instrumentType]
       IN  IF entry.nan \/ tpPips.nan \/ tpPips.value <= 0
              \/ slPips.nan \/ slPips.value <= 0
           THEN Rejected
           ELSE Calculated(params, calculateTradePointsLogic(params))
    /\ UNCHANGED ctrlVars

\* CompoundingCalculatorSection.handleCalculate
CompoundingSubmit ==
    /\ call.fn = "CompoundingCalculatorSection" /\ ~ call.done
    /\ LET balance == call.args.initialBalance
           numPeriods == call.args.period
       IN  IF balance.nan \/ balance.sign <= 0 \/ numPeriods.nan \/ numPeriods.value <= 0
           THEN Rejected
           ELSE Calculated([initialBalance |-> balance,
                            frequency |-> call.args.frequency, periods |-> numPeriods],
                           calculateCompoundingLogic(balance, call.args.frequency,
                                                     numPeriods))
    /\ UNCHANGED ctrlVars

\* ProgressSection.handleUpdateBalance: onUpdateBalance is the hook's
\* handleUpdateBalance.
ProgressSubmit ==
    /\ call.fn = "ProgressSection" /\ ~ call.done
    /\ LET newBalance == call.args.dailyInput
       IN  IF ~ newBalance.nan /\ newBalance.value >= 0
           THEN handleUpdateBalance(newBalance.value)
           ELSE Rejected /\ UNCHANGED ctrlVars

FormsNext == TradeCalculatorSubmit \/ CompoundingSubmit \/ ProgressSubmit

FormsSpec == FormsInit /\ [][FormsNext]_vars

\* C11 (as stated): no form passes a non-numeric or non-positive entry price,
\* pip count, period count or balance to calculateTradePointsLogic,
\* calculateCompoundingLogic or handleUpdateBalance, and a rejected submission
\* leaves the displayed result, the balance and the trade counter as they were.
C11_FormsRejectInvalidInput ==
    /\ (call.fn = "TradeCalculatorSection" /\ call.done) =>
          IF call.result.invoked # << >>
          THEN /\ ~ call.args.entryPrice.nan /\ call.args.entryPrice.value > 0
               /\ ~ call.args.customTP.nan /\ call.args.customTP.value > 0
               /\ ~ call.args.customSL.nan /\ call.args.customSL.value > 0
          ELSE call.result.results \in {<< >>, << EarlierTradePoints >>}
    /\ (call.fn = "CompoundingCalculatorSection" /\ call.done) =>
          IF call.result.invoked # << >>
          THEN /\ IsPositive(call.args.initialBalance)
               /\ ~ call.args.period.nan /\ call.args.period.value > 0
          ELSE call.result.results \in {<< >>, << EarlierCompounding >>}
    /\ call.fn = "ProgressSection" =>
          IF lastOp.op = "handleUpdateBalance"
          THEN ~ call.args.dailyInput.nan /\ call.args.dailyInput.value > 0
          ELSE /\ currentBalance = call.args.balanceBefore
               /\ tradesToday = call.args.tradesBefore

----------------------------------------------------------------------------
(* The store adapter on its own: writes, reads, a full store, a store whose
   text was damaged, and the environments a call can run in *)

\* "browser": window.localStorage works (setItem may still throw when full);
\* "server": typeof window === 'undefined';
\* "blocked": evaluating localStorage throws (storage access denied).
Environments == {"browser", "server", "blocked"}

Malformed == "{oops"

Kinds == {"number", "string", "boolean"}

StoreCase(kind) ==
    CASE kind = "number" ->
           [key |-> getLsKey("gold", "currentBalance"), kind |-> kind,
            defaultValue |-> InitialBalanceDefault("gold")]
      [] kind = "string" ->
           [key |-> getLsKey("gold", "lastTradeDate"), kind |-> kind,
            defaultValue |-> ""]
      [] kind = "boolean" ->
           [key |-> reminderKey(StartDate), kind |-> kind, defaultValue |-> FALSE]

\* What a call did: it returned a value, or it threw.
Returns(v) == [threw |-> FALSE, value |-> << v >>]
Throws == [threw |-> TRUE, value |-> << >>]

StoreInit ==
    /\ today = StartDate
    /\ ls = [k \in {} |-> ""]
    /\ storageWritable = TRUE
    /\ instrumentType = "none"
    /\ currentBalance = 0
    /\ tradesToday = 0
    /\ lastTradeDate = ""
    /\ tradePlan = << >>
    /\ queued = NoUpdates
    /\ effects = << >>
    /\ toasts = [k \in {} |-> 0]
    /\ lastOp = NoOp
    /\ \E kind \in Kinds :
          call = [fn |-> "none", args |-> StoreCase(kind), done |-> FALSE,
                  result |-> [env |-> "browser", written |-> << >>, intact |-> TRUE,
                              before |-> << >>, stored |-> FALSE,
                              outcome |-> Returns(StoreCase(kind).defaultValue)]]

StoreFrame ==
    UNCHANGED << today, instrumentType, currentBalance, tradesToday, lastTradeDate,
                 tradePlan, queued, effects, toasts, lastOp >>

\* setLocalStorageItem(key, value) in environment env: nothing is thrown to
\* the caller; the text is stored only in a browser whose store takes it.
StoreSet(value, env) ==
    LET c == call.args
        stored == env = "browser" /\ storageWritable
    IN  /\ ls' = IF env = "browser" THEN setLocalStorageItem(ls, c.key, value, c.kind)
                 ELSE ls
        /\ call' = [call EXCEPT !.fn = "setLocalStorageItem", !.done = TRUE,
                       !.result = [env |-> env,
                                   written |-> IF stored THEN << value >> ELSE @.written,
                                   intact |-> IF stored THEN TRUE ELSE @.intact,
                                   before |-> StoredText(ls, c.key),
                                   stored |-> stored,
                                   outcome |-> Returns(c.defaultValue)]]
        /\ UNCHANGED storageWritable
        /\ StoreFrame

\* getLocalStorageItem(key, defaultValue) in environment env: the window test
\* is first, localStorage.getItem is outside the try, JSON.parse inside it.
StoreGet(env) ==
    LET c == call.args
    IN  /\ call' = [call EXCEPT !.fn = "getLocalStorageItem", !.done = TRUE,
                       !.result.env = env,
                       !.result.outcome =
                           IF env = "server" THEN Returns(c.defaultValue)
                           ELSE IF env = "blocked" THEN Throws
                           ELSE Returns(getLocalStorageItem(ls, c.key, c.defaultValue,
                                                            c.kind))]
        /\ UNCHANGED << ls, storageWritable >>
        /\ StoreFrame

\* The store fills up, or gets room again.
QuotaChange ==
    /\ storageWritable' = ~ storageWritable
    /\ call' = [call EXCEPT !.fn = "none", !.done = FALSE]
    /\ UNCHANGED ls
    /\ StoreFrame

\* Something else leaves text under the key that is no JSON.
Damage ==
    /\ ls' = [k \in DOMAIN ls \cup {call.args.key} |->
                 IF k = call.args.key THEN Malformed ELSE ls[k]]
    /\ call' = [call EXCEPT !.fn = "none", !.done = FALSE, !.result.intact = FALSE]
    /\ UNCHANGED storageWritable
    /\ StoreFrame

StoreNext ==
    \/ \E env \in Environments :
          \E value \in JSONvalues(call.args.kind) : StoreSet(value, env)
    \/ \E env \in Environments : StoreGet(env)
    \/ QuotaChange
    \/ Damage

StoreSpec == StoreInit /\ [][StoreNext]_vars

\* C13 (as stated): getLocalStorageItem returns the caller's default when the
\* key is absent, the stored text cannot be parsed or storage is unavailable,
\* and otherwise the value last successfully written by setLocalStorageItem;
\* a failing setLocalStorageItem raises nothing and leaves the stored text.
C13_DefaultOrLastWritten ==
    /\ (call.done /\ call.fn = "getLocalStorageItem") =>
          call.result.outcome =
             IF call.result.env # "browser" \/ call.result.written = << >>
                \/ ~ call.result.intact
             THEN Returns(call.args.defaultValue)
             ELSE Returns(call.result.written[1])
    /\ (call.done /\ call.fn = "setLocalStorageItem") =>
          /\ ~ call.result.outcome.threw
          /\ ~ call.result.stored => StoredText(ls, call.args.key) = call.result.before

----------------------------------------------------------------------------
(* The projections on their own: compounding over 1, 2, ... periods, the
   withdrawal calculation, and compounding followed by withdrawal *)

MaxPeriods == 3

PositiveAmounts ==
    { Number(1, m, e) : m \in {1, 25, MaxMantissa}, e \in (0 - 2)..MaxExp }
Amounts == PositiveAmounts \cup {NaN, Number(1, 0, 0), Number(0 - 1, 5, 0)}

ProjectionInit ==
    /\ today = StartDate
    /\ ls = [k \in {} |-> ""]
    /\ storageWritable = TRUE
    /\ instrumentType = "none"
    /\ currentBalance = 0
    /\ tradesToday = 0
    /\ lastTradeDate = ""
    /\ tradePlan = << >>
    /\ queued = NoUpdates
    /\ effects = << >>
    /\ toasts = [k \in {} |-> 0]
    /\ lastOp = NoOp
    /\ \/ \E b \in Amounts, f \in Frequencies :
             call = Pending("calculateCompoundingLogic",
                            [initialBalance |-> b, frequency |-> f])
       \/ \E b \in Amounts :
             call = Pending("calculateWithdrawalLogic", [manualBalance |-> b])
       \/ \E b \in PositiveAmounts :
             \/ call = Pending("compoundThenWithdraw",
                               [x |-> b, frequency |-> "monthly", periods |-> 1])
             \/ call = Pending("compoundThenWithdraw",
                               [x |-> b, frequency |-> "daily",
                                periods |-> WITHDRAWAL_DAYS])

\* calculateCompoundingLogic for the next number of periods: 1, 2, ...
CompoundNextPeriod ==
    /\ call.fn = "calculateCompoundingLogic" /\ Len(call.result) < MaxPeriods
    /\ call' = [call EXCEPT
                  !.result = Append(@, calculateCompoundingLogic(
                                          call.args.initialBalance, call.args.frequency,
                                          Parsed(Len(call.result) + 1))),
                  !.done = (Len(call.result) + 1 = MaxPeriods)]
    /\ UNCHANGED ctrlVars

Withdraw ==
    /\ call.fn = "calculateWithdrawalLogic" /\ ~ call.done
    /\ call' = [call EXCEPT !.done = TRUE,
                  !.result = << calculateWithdrawalLogic(call.args.manualBalance) >>]
    /\ UNCHANGED ctrlVars

CompoundForward ==
    /\ call.fn = "compoundThenWithdraw" /\ call.result = << >>
    /\ call' = [call EXCEPT
                  !.result = << calculateCompoundingLogic(call.args.x, call.args.frequency,
                                                          Parsed(call.args.periods)) >>]
    /\ UNCHANGED ctrlVars

\* The projected balance, read back as a number, goes into the withdrawal
\* calculation.
WithdrawProjected ==
    /\ call.fn = "compoundThenWithdraw" /\ Len(call.result) = 1
    /\ LET projected == call.result[1].projectedBalance.value
       IN  call' = [call EXCEPT !.done = TRUE,
                      !.result = Append(@, calculateWithdrawalLogic(
                                              Number(1, projected.m, projected.e)))]
    /\ UNCHANGED ctrlVars

ProjectionNext == CompoundNextPeriod \/ Withdraw \/ CompoundForward \/ WithdrawProjected

ProjectionSpec == ProjectionInit /\ [][ProjectionNext]_vars

\* |a - b| <= tolerance, for a, b >= 0
Within(a, b, tolerance) ==
    ~ LessDec(tolerance, IF LessDec(a, b) THEN MinusDec(b, a) ELSE MinusDec(a, b))

\* Two cents, or a thousandth of x when that is more.
RoundingTolerance(x) ==
    IF LessDec(Dec(2, 0 - 2), Dec(x.m, x.e - 3)) THEN Dec(x.m, x.e - 3)
    ELSE Dec(2, 0 - 2)

\* C15 (as stated): for every x > 0, compounding x over one "monthly" period
\* and applying the withdrawal calculation to the projected balance gives a
\* totalGrowth equal to projected balance - x, within rounding tolerance.
C15_WithdrawalInvertsMonthlyCompounding ==
    (call.fn = "compoundThenWithdraw" /\ call.done
       /\ call.args.frequency = "monthly") =>
       Within(call.result[2].totalGrowth.value,
              MinusDec(call.result[1].projectedBalance.value,
                       Dec(call.args.x.m, call.args.x.e)),
              RoundingTolerance(call.args.x))

C17_WithdrawalSentinel ==
    (call.fn = "calculateWithdrawalLogic" /\ call.done) =>
       LET rejected == call.args.manualBalance.nan \/ call.args.manualBalance.sign <= 0
       IN  /\ call.result[1].totalGrowth.unset <=> rejected
           /\ call.result[1].withdrawableAmount.unset <=> rejected

\* C17 witness: the calculation for -5 has returned the sentinel pair.
C17_Witness ==
    /\ call.fn = "calculateWithdrawalLogic" /\ call.done
    /\ call.args.manualBalance = Number(0 - 1, 5, 0)
    /\ call.result[1].totalGrowth.unset /\ call.result[1].withdrawableAmount.unset

(***************************************************************************)
(* The login form: LoginForm (unnamed/part_002).  The form keeps the three *)
(* field values; a submission runs the schema first and calls onSubmit     *)
(* only with values the schema accepts.  call.args are the field values,   *)
(* call.result is what the last submission did: the toast it raised, the   *)
(* route it pushed and the fields it marked with a message.                *)
(***************************************************************************)
Unselected == "unselected"

\* What a user may have typed: the pair of the source, near misses of it (case,
\* surrounding blanks, the two words swapped) and nothing at all.
LoginTexts == {"", "admin", "Admin", "admin ", "profits", " profits", "PROFITS"}

NoSubmission == [toast |-> "none", route |-> "none", messages |-> {}]

\* useForm defaultValues: empty texts, no instrument.
LoginInit ==
    /\ call = [fn |-> "LoginForm",
               args |-> [username |-> "", password |-> "", instrument |-> Unselected],
               done |-> FALSE, result |-> NoSubmission]
    /\ \E i \in Instruments, balance \in UpdateValues, trades \in 0..(MaxTrades - 1) :
          SettledDashboard(i, balance, trades)

\* A field's onChange.  The page is gone once a route was pushed.
LoginChange ==
    /\ call.fn = "LoginForm" /\ call.result.route = "none"
    /\ \E username \in LoginTexts, password \in LoginTexts,
          instrument \in {"volatility75", "gold"} :
          /\ \/ call' = [call EXCEPT !.args.username = username, !.done = FALSE,
                                     !.result = NoSubmission]
             \/ call' = [call EXCEPT !.args.password = password, !.done = FALSE,
                                     !.result = NoSubmission]
             \/ call' = [call EXCEPT !.args.instrument = instrument, !.done = FALSE,
                                     !.result = NoSubmission]
          /\ call' # call
    /\ UNCHANGED ctrlVars

\* formSchema: the fields the schema refuses.
formSchema(values) ==
    (IF Len(values.username) < 1 THEN {"username"} ELSE {})
       \cup (IF Len(values.password) < 1 THEN {"password"} ELSE {})
       \cup (IF values.instrument \notin {"volatility75", "gold"}
             THEN {"instrument"} ELSE {})

onSubmitAnyPassword(values) ==
    IF values.username = "admin"
    THEN [toast |-> "Login Successful", route |-> "/dashboard/" \o values.instrument,
          messages |-> {}]
    ELSE [toast |-> "Login Failed", route |-> "none", messages |-> {}]

\* LoginForm.onSubmit
onSubmit(values) ==
    IF values.username = "admin" /\ values.password = "profits"
    THEN [toast |-> "Login Successful", route |-> "/dashboard/" \o values.instrument,
          messages |-> {}]
    ELSE [toast |-> "Login Failed", route |-> "none", messages |-> {}]

\* form.handleSubmit(onSubmit)
LoginSubmit ==
    /\ call.fn = "LoginForm" /\ ~ call.done
    /\ LET refused == formSchema(call.args)
       IN  call' = [call EXCEPT !.done = TRUE,
                       !.result = IF refused = {} THEN onSubmit(call.args)
                                  ELSE [NoSubmission EXCEPT !.messages = refused]]
    /\ UNCHANGED ctrlVars

LoginNext == LoginChange \/ LoginSubmit

LoginSpec == LoginInit /\ [][LoginNext]_vars

Submitted == call.fn = "LoginForm" /\ call.done

ExactPair == call.args.username = "admin" /\ call.args.password = "profits"

\* C19 (as stated): a login submission pushes /dashboard/<selected instrument>
\* if and only if username and password equal the hard-coded pair, and every
\* other submission raises the invalid-credentials toast and pushes nothing.
C19_LoginRoutesIffExactPair ==
    Submitted =>
       IF ExactPair
       THEN call.result.route = "/dashboard/" \o call.args.instrument
       ELSE call.result.route = "none" /\ call.result.toast = "Login Failed"

\* C19 (amended): among the submissions the schema accepts (both texts non-empty,
\* an instrument selected) the route of the selected instrument is pushed if and
\* only if the pair matches exactly, and every other one raises the
\* invalid-credentials toast; a submission the schema refuses marks the refused
\* fields, raises no toast and pushes nothing.
C19_AcceptedLoginRoutesIffExactPair ==
    Submitted =>
       IF formSchema(call.args) # {}
       THEN /\ call.result.route = "none" /\ call.result.toast = "none"
            /\ call.result.messages = formSchema(call.args)
       ELSE IF ExactPair
            THEN /\ call.result.route = "/dashboard/" \o call.args.instrument
                 /\ call.result.toast = "Login Successful"
            ELSE call.result.route = "none" /\ call.result.toast = "Login Failed"

C19_Witness ==
    /\ Submitted /\ ExactPair /\ call.args.instrument = "gold"
    /\ call.result.route = "/dashboard/gold"

C19_WitnessNearMiss ==
    /\ Submitted /\ call.args.username = "admin" /\ call.args.password = "PROFITS"
    /\ call.result.toast = "Login Failed"

C19_WitnessRefused ==
    /\ Submitted /\ ExactPair /\ call.args.instrument = Unselected
    /\ call.result.messages = {"instrument"}

(***************************************************************************)
(* The trade-plan rebuild on its own: the map of updateTradesDisplay over  *)
(* the plans of both revisions of the engine and over plans of the         *)
(* TradePlan type whose groups hold different numbers of trades (neither   *)
(* engine builds such a plan: the two gold groups of the first revision    *)
(* are built from the same lots).  call.args are the base plan, the trade  *)
(* counter and the revision of the hook; call.result is the updated        *)
(* groups.                                                                 *)
(***************************************************************************)
MaxCompleted == 9       \* trade counters 0..MaxCompleted
MaxGroups == 3          \* groups of a plan that no engine built
MaxGroupTrades == 2     \* trades in one of its groups

\* Balances giving the first revision's gold groups 1, 2, 3 and 4 trades.
PlanBalances == {50, 1000, 1050, 1300, 250000, 300000, 600000, 1000000}

EnginePlans ==
    { calculateTradeGroupsLogic(b, i) : b \in PlanBalances, i \in Instruments }
       \cup { calculateTradeGroupsLogicEarlier(b, i) : b \in PlanBalances, i \in Instruments }

\* TradePlan values with groups numbered 1, 2, ... in order and sizes[gi] trades
\* in group gi.
PlanOfSizes(sizes) ==
    LET groups == [gi \in 1..Len(sizes) |->
                     [groupNumber |-> gi,
                      trades |-> [t \in 1..sizes[gi] |-> GoldTradeDetail(1000, MIN_LOT_SIZE_GOLD)],
                      totalLots |-> sizes[gi] * MIN_LOT_SIZE_GOLD]]
    IN  [dailyTarget |-> 0,
         totalTradesRequired |-> TradesBefore(groups, Len(groups) + 1),
         groups |-> groups]

TypedPlans ==
    { PlanOfSizes(sizes) :
         sizes \in UNION { [1..n -> 0..MaxGroupTrades] : n \in 1..MaxGroups } }

PlanInit ==
    /\ \E basePlan \in EnginePlans \cup TypedPlans, counter \in 0..MaxCompleted,
          revision \in {"hook", "earlier"} :
          /\ revision = "earlier" => basePlan \in EnginePlans
          /\ call = [fn |-> "updateTradesDisplay",
                     args |-> [basePlan |-> basePlan, tradesToday |-> counter,
                               revision |-> revision],
                     done |-> FALSE, result |-> << >>]
    /\ \E i \in Instruments, balance \in UpdateValues, trades \in 0..(MaxTrades - 1) :
          SettledDashboard(i, balance, trades)

\* updateTradesDisplay of use-dashboard-state.ts
RebuildPlan ==
    /\ call.fn = "updateTradesDisplay" /\ ~ call.done /\ call.args.revision = "hook"
    /\ call' = [call EXCEPT !.done = TRUE,
                   !.result = UpdatedGroups(call.args.basePlan, call.args.tradesToday)]
    /\ UNCHANGED ctrlVars

\* updateTradesDisplay of the earlier revision
RebuildPlanEarlier ==
    /\ call.fn = "updateTradesDisplay" /\ ~ call.done /\ call.args.revision = "earlier"
    /\ call' = [call EXCEPT !.done = TRUE,
                   !.result = UpdatedGroupsEarlier(call.args.basePlan,
                                                   call.args.tradesToday)]
    /\ UNCHANGED ctrlVars

PlanNext == RebuildPlan \/ RebuildPlanEarlier

PlanSpec == PlanInit /\ [][PlanNext]_vars

\* The trades of all groups, in group order.
RECURSIVE AllTrades(_)
AllTrades(groups) ==
    IF groups = << >> THEN << >>
    ELSE Head(groups).trades \o AllTrades(Tail(groups))

Rebuilt == call.fn = "updateTradesDisplay" /\ call.done

\* C20: after a rebuild the trades of all groups, taken in group order, carry
\* the indices 0 .. totalTradesRequired - 1 one after the other, a trade is
\* Completed exactly when the trade counter is greater than its index and
\* Pending otherwise, and the Completed trades form a prefix of the sequence.
C20_SequentialIndicesCompletedPrefix ==
    Rebuilt =>
       LET all == AllTrades(call.result)
           counter == call.args.tradesToday
       IN  /\ Len(call.result) = Len(call.args.basePlan.groups)
           /\ Len(all) = call.args.basePlan.totalTradesRequired
           /\ \A k \in 1..Len(all) :
                 /\ all[k].tradeNumber = k - 1
                 /\ all[k].status = (IF counter > k - 1 THEN "Completed"
                                     ELSE "Pending")
                 /\ \A j \in 1..(k - 1) :
                       all[k].status = "Completed" => all[j].status = "Completed"

\* A plan of the first revision's engine: two groups of three trades, four
\* trades done.
C20_Witness ==
    /\ Rebuilt /\ call.args.revision = "hook" /\ call.args.tradesToday = 4
    /\ call.args.basePlan = calculateTradeGroupsLogicEarlier(600000, "gold")
    /\ call.result[2].trades[1].tradeNumber = 3
    /\ call.result[2].trades[1].status = "Completed"
    /\ call.result[2].trades[2].status = "Pending"

\* Groups of two, no and one trade: the last group's trade is the third.
C20_WitnessUnequalGroups ==
    /\ Rebuilt /\ call.args.tradesToday = 2
    /\ call.args.basePlan = PlanOfSizes(<< 2, 0, 1 >>)
    /\ call.result[3].trades[1].tradeNumber = 2
    /\ call.result[3].trades[1].status = "Pending"

====
